---- MODULE Spec2Model ----
(***************************************************************************)
(* redis-key-locker: a lease lock on one Redis server.                     *)
(*                                                                         *)
(* The model holds the Redis keyspace (value and remaining time to live of *)
(* every lock key), the callers of RedisLocker and where each of them is   *)
(* (idle, holding a token obtained from _acquire, or inside the protected  *)
(* section of a lock() scope), and a record of the last call made: its     *)
(* arguments, its result and the Redis commands it issued.                 *)
(*                                                                         *)
(* Time is counted in ticks.  A key stored with PX n is readable for n     *)
(* ticks and is gone at the n-th tick, as Redis expires it.                *)
(***************************************************************************)
EXTENDS Integers, Sequences, FiniteSets, TLC

\* ---------------------------------------------------------------- bounds
\* Number of distinct values uuid4() can hand out at one time.
MaxUuid == 3
\* Largest ttl_ms a caller passes.
MaxTtl == 2

\* ---------------------------------------------------------------- inputs
Keys == {"k1", "k2"}
\* Two threads on the same Redis: a calls a RedisLocker A, b calls the
\* RedisLocker B that a RedisLockerKey makes for itself.
Callers == {"a", "b"}
LockerOf(c) == IF c = "a" THEN "A" ELSE "B"
UuidNames == [i \in 1..MaxUuid |-> "uuid-" \o ToString(i)]
UuidOf(i) == UuidNames[i]
UuidPool == {UuidOf(i) : i \in 1..MaxUuid}
\* uuid= arguments of _acquire other than None:  "" is falsy in Python.
CustomUuids == {"", "custom"}
AcquireTtls == 1..MaxTtl
\* touch does not validate ttl_ms: 0 is the non-positive case.
TouchTtls == 0..MaxTtl
\* The four ways into a lock() scope: two on a RedisLocker, two on a
\* RedisLockerKey.
Vias == {"lock", "__call__", "key.lock", "key.__call__"}
ViasOf(c) == IF c = "a" THEN {"lock", "__call__"} ELSE {"key.lock", "key.__call__"}
\* How the protected section ends: it completes, or an error leaves it.
Hows == {"return", "raise"}
BodyError == "ValueError"
\* What the Redis client raises when the store cannot be reached or does not
\* answer in time.
StoreErrors == {"ConnectionError", "TimeoutError"}

VARIABLES
    store,     \* Redis keyspace: key -> [val, pttl], only for present keys
    pc,        \* caller -> "idle" | "holding" | "section"
    handle,    \* caller -> the (key, uuid) it acquired (_RedisLock in a scope)
    via,       \* caller -> how it entered its scope
    trueRel,   \* key -> tokens of the releases that returned True since its
               \* last acquisition
    owner,     \* key -> the caller whose acquisition put the present value there
    ev         \* the last call: who, what, arguments, result, Redis commands

vars == <<store, pc, handle, via, trueRel, owner, ev>>

\* ------------------------------------------------------------ Redis server
EmptyStore == [k \in {} |-> [val |-> "", pttl |-> 0]]
Put(st, key, entry) == [k \in DOMAIN st \cup {key} |-> IF k = key THEN entry ELSE st[k]]
Drop(st, key) == [k \in DOMAIN st \ {key} |-> st[k]]
Cmd(name, key, arg, ms) == [cmd |-> name, key |-> key, arg |-> arg, ms |-> ms]

\* GET: the value as a one-element sequence, <<>> for nil.
redis_get(st, key) == IF key \in DOMAIN st THEN <<st[key].val>> ELSE <<>>

\* PTTL, with 0 standing for "no such key".
redis_pttl(st, key) == IF key \in DOMAIN st THEN st[key].pttl ELSE 0

\* SET key value NX PX px
redis_set_overwrite(st, key, value, px) ==
    [store |-> Put(st, key, [val |-> value, pttl |-> px]), reply |-> TRUE]
redis_set_nx_refresh(st, key, value, px) ==
    IF key \in DOMAIN st
    THEN [store |-> Put(st, key, [val |-> st[key].val, pttl |-> px]), reply |-> FALSE]
    ELSE [store |-> Put(st, key, [val |-> value, pttl |-> px]), reply |-> TRUE]
redis_set_nx_px(st, key, value, px) ==
    IF key \in DOMAIN st
    THEN [store |-> st, reply |-> FALSE]
    ELSE [store |-> Put(st, key, [val |-> value, pttl |-> px]), reply |-> TRUE]

\* DEL key
redis_del_keep(st, key) ==
    [store |-> st, reply |-> IF key \in DOMAIN st THEN 1 ELSE 0]
redis_del(st, key) ==
    IF key \in DOMAIN st
    THEN [store |-> Drop(st, key), reply |-> 1]
    ELSE [store |-> st, reply |-> 0]

\* PEXPIRE key ms: a non-positive ms deletes the key; the reply is 1 either way.
redis_pexpire_add(st, key, ms) ==
    IF key \notin DOMAIN st THEN [store |-> st, reply |-> 0]
    ELSE IF ms <= 0 THEN [store |-> Drop(st, key), reply |-> 1]
    ELSE [store |-> Put(st, key, [val |-> st[key].val, pttl |-> st[key].pttl + ms]),
          reply |-> 1]
redis_pexpire(st, key, ms) ==
    IF key \notin DOMAIN st THEN [store |-> st, reply |-> 0]
    ELSE IF ms <= 0 THEN [store |-> Drop(st, key), reply |-> 1]
    ELSE [store |-> Put(st, key, [val |-> st[key].val, pttl |-> ms]), reply |-> 1]

\* One tick of the server's clock.
Expire_frozen(st) == st
Expire(st) ==
    [k \in {x \in DOMAIN st : st[x].pttl > 1} |-> [val |-> st[k].val, pttl |-> st[k].pttl - 1]]

\* ------------------------------------------------------------- RedisLocker
release_script_unfenced(st, key, arg) == redis_del(st, key)
release_script(st, key, arg) ==
    IF redis_get(st, key) = <<arg>>
    THEN redis_del(st, key)
    ELSE [store |-> st, reply |-> 0]

touch_script_unfenced(st, key, arg, ms) == redis_pexpire(st, key, ms)
touch_script(st, key, arg, ms) ==
    IF redis_get(st, key) = <<arg>>
    THEN redis_pexpire(st, key, ms)
    ELSE [store |-> st, reply |-> 0]

\* _acquire(key, ttl_ms, uuid=uuid): uuid is <<>> for None; fresh is the value
\* a call of str(uuid4()) gives.
_acquire_unchecked(st, key, ttl_ms, uuid, fresh) ==
    LET u == IF uuid # <<>> /\ uuid[1] # "" THEN uuid[1] ELSE fresh
        r == redis_set_nx_px(st, key, u, ttl_ms)
    IN  [store |-> r.store, ret |-> <<u>>, log |-> <<Cmd("set", key, u, ttl_ms)>>]
_acquire(st, key, ttl_ms, uuid, fresh) ==
    LET u == IF uuid # <<>> /\ uuid[1] # "" THEN uuid[1] ELSE fresh
        r == redis_set_nx_px(st, key, u, ttl_ms)
    IN  [store |-> r.store,
         ret   |-> IF r.reply THEN <<u>> ELSE <<>>,
         log   |-> <<Cmd("set", key, u, ttl_ms)>>]

_release_truthy(st, key, uuid) ==
    LET r == release_script(st, key, uuid)
    IN  [store |-> r.store, ret |-> TRUE,
         log |-> <<Cmd("release_script", key, uuid, 0)>>]
_release(st, key, uuid) ==
    LET r == release_script(st, key, uuid)
    IN  [store |-> r.store, ret |-> (r.reply = 1),
         log |-> <<Cmd("release_script", key, uuid, 0)>>]

_touch(st, key, uuid, ttl_ms) ==
    LET r == touch_script(st, key, uuid, ttl_ms)
    IN  [store |-> r.store, ret |-> (r.reply = 1),
         log |-> <<Cmd("touch_script", key, uuid, ttl_ms)>>]

\* _RedisLock.touch
RedisLock_touch_swapped(st, lock, ttl_ms) == _touch(st, lock.uuid, lock.key, ttl_ms)
RedisLock_touch(st, lock, ttl_ms) == _touch(st, lock.key, lock.uuid, ttl_ms)

\* RedisLocker.lock up to its yield: the lock handed to the protected section,
\* or the error raised.
RedisLocker_lock_noraise(st, key, ttl_ms, fresh) ==
    LET a == _acquire(st, key, ttl_ms, <<>>, fresh)
    IN  [store |-> a.store, log |-> a.log, exc |-> "",
         lock |-> <<[key |-> key, uuid |-> IF a.ret = <<>> THEN fresh ELSE a.ret[1]]>>]
RedisLocker_lock(st, key, ttl_ms, fresh) ==
    LET a == _acquire(st, key, ttl_ms, <<>>, fresh)
    IN  IF a.ret = <<>>
        THEN [store |-> a.store, log |-> a.log, exc |-> "RuntimeError", lock |-> <<>>]
        ELSE [store |-> a.store, log |-> a.log, exc |-> "",
              lock |-> <<[key |-> key, uuid |-> a.ret[1]]>>]

\* RedisLocker.lock from its yield on: how is the way the protected section
\* ended.  The result of _release is dropped; an error of the section goes on.
RedisLocker_lock_exit_else(st, key, uuid, how) ==
    LET r == _release(st, key, uuid)
    IN  IF how = "raise"
        THEN [store |-> st, log |-> <<>>, released |-> FALSE, exc |-> BodyError]
        ELSE [store |-> r.store, log |-> r.log, released |-> r.ret, exc |-> ""]
RedisLocker_lock_exit_strict(st, key, uuid, how) ==
    LET r == _release(st, key, uuid)
    IN  [store |-> r.store, log |-> r.log, released |-> r.ret,
         exc |-> IF ~r.ret THEN "RuntimeError"
                 ELSE IF how = "raise" THEN BodyError ELSE ""]
RedisLocker_lock_exit(st, key, uuid, how) ==
    LET r == _release(st, key, uuid)
    IN  [store |-> r.store, log |-> r.log, released |-> r.ret,
         exc |-> IF how = "raise" THEN BodyError ELSE ""]

\* The same calls when the Redis client raises exc: the server has executed
\* the command (done) or has not, and the call has no except clause, so exc
\* leaves it in place of a result.
_acquire_raising(st, key, ttl_ms, uuid, fresh, exc, done) ==
    LET r == _acquire(st, key, ttl_ms, uuid, fresh)
    IN  [store |-> IF done THEN r.store ELSE st, log |-> r.log, exc |-> exc]
_release_raising(st, key, uuid, exc, done) ==
    LET r == _release(st, key, uuid)
    IN  [store |-> IF done THEN r.store ELSE st, log |-> r.log, exc |-> exc]
_touch_raising(st, key, uuid, ttl_ms, exc, done) ==
    LET r == _touch(st, key, uuid, ttl_ms)
    IN  [store |-> IF done THEN r.store ELSE st, log |-> r.log, exc |-> exc]
\* lock(): _acquire raises before the try, so neither the yield nor the
\* finally clause is reached.  The three other ways in wrap lock() in a with
\* statement and add nothing.
RedisLocker_lock_raising(st, key, ttl_ms, fresh, exc, done) ==
    _acquire_raising(st, key, ttl_ms, <<>>, fresh, exc, done)
\* lock(): _release raises in the finally clause, and its error is the one
\* that leaves the scope, an error of the protected section or not.
RedisLocker_lock_exit_swallowing(st, key, uuid, how, exc, done) ==
    LET r == _release_raising(st, key, uuid, exc, done)
    IN  [store |-> r.store, log |-> r.log,
         exc |-> IF how = "raise" THEN BodyError ELSE ""]
RedisLocker_lock_exit_raising(st, key, uuid, how, exc, done) ==
    _release_raising(st, key, uuid, exc, done)

\* RedisLocker.__call__
RedisLocker_call(st, key, ttl_ms, fresh) == RedisLocker_lock(st, key, ttl_ms, fresh)
RedisLocker_call_exit_skip(st, key, uuid, how) ==
    [store |-> st, log |-> <<>>, released |-> FALSE,
     exc |-> IF how = "raise" THEN BodyError ELSE ""]
RedisLocker_call_exit(st, key, uuid, how) == RedisLocker_lock_exit(st, key, uuid, how)

\* RedisLockerKey.lock: _key is the key given to RedisLocker.__getitem__.
RedisLockerKey_lock_fixed(st, _key, ttl_ms, fresh) == RedisLocker_lock(st, "k1", ttl_ms, fresh)
RedisLockerKey_lock(st, _key, ttl_ms, fresh) == RedisLocker_lock(st, _key, ttl_ms, fresh)
RedisLockerKey_lock_exit(st, _key, uuid, how) == RedisLocker_lock_exit(st, _key, uuid, how)

\* RedisLockerKey.__call__
RedisLockerKey_call(st, _key, ttl_ms, fresh) == RedisLockerKey_lock(st, _key, ttl_ms, fresh)
RedisLockerKey_call_exit(st, _key, uuid, how) == RedisLockerKey_lock_exit(st, _key, uuid, how)

Enter(v, st, key, ttl_ms, fresh) ==
    CASE v = "lock"         -> RedisLocker_lock(st, key, ttl_ms, fresh)
      [] v = "__call__"     -> RedisLocker_call(st, key, ttl_ms, fresh)
      [] v = "key.lock"     -> RedisLockerKey_lock(st, key, ttl_ms, fresh)
      [] v = "key.__call__" -> RedisLockerKey_call(st, key, ttl_ms, fresh)

Leave(v, st, key, uuid, how) ==
    CASE v = "lock"         -> RedisLocker_lock_exit(st, key, uuid, how)
      [] v = "__call__"     -> RedisLocker_call_exit(st, key, uuid, how)
      [] v = "key.lock"     -> RedisLockerKey_lock_exit(st, key, uuid, how)
      [] v = "key.__call__" -> RedisLockerKey_call_exit(st, key, uuid, how)

\* ------------------------------------------------------------------ state
NoHandle == [key |-> "", uuid |-> ""]
\* arg is what the call was given besides key, token and ttl: the uuid= of
\* _acquire (<<>> for None), the way the protected section ended.  fault is
\* the error the Redis client raised in the step, "" when it raised none.
Event(op, c, key, tok, ttl, ok, exc, log, was, arg) ==
    [op |-> op, caller |-> c, key |-> key, tok |-> tok, ttl |-> ttl,
     ok |-> ok, exc |-> exc, log |-> log, was |-> was, arg |-> arg, fault |-> ""]

\* The uuids in use: stored in Redis or held by a caller.  uuid4() gives a
\* value that is none of them.
UsedUuids ==
    {store[k].val : k \in DOMAIN store} \cup {handle[c].uuid : c \in Callers}
FreeUuids == UuidPool \ UsedUuids
Uuid4_repeating == {UuidOf(1)}
\* str(uuid4()): which unused value it gives makes no difference, the first
\* one is taken.
Uuid4 ==
    {UuidOf(i) : i \in {j \in 1..MaxUuid :
                          /\ UuidOf(j) \in FreeUuids
                          /\ \A h \in 1..(j - 1) : UuidOf(h) \notin FreeUuids}}
\* What a caller passes as uuid= to _acquire: None, or a string of its own.
UuidArgs == {<<>>} \cup {<<u>> : u \in CustomUuids}
\* What caller c passes as uuid to _release and _touch: a string of its own,
\* or the token it holds.
TokenArgs(c) ==
    (CustomUuids \ {""}) \cup (IF pc[c] = "holding" THEN {handle[c].uuid} ELSE {})

\* owner after a step that leaves the keyspace st: c has just acquired key
\* (c = "" when the step acquired nothing), and a key that is gone has no owner.
Owners(st, c, key) ==
    [k \in Keys |-> IF k \notin DOMAIN st THEN ""
                    ELSE IF c # "" /\ k = key THEN c ELSE owner[k]]

Init ==
    /\ store = EmptyStore
    /\ owner = [k \in Keys |-> ""]
    /\ pc = [c \in Callers |-> "idle"]
    /\ handle = [c \in Callers |-> NoHandle]
    /\ via = [c \in Callers |-> ""]
    /\ trueRel = [k \in Keys |-> <<>>]
    /\ ev = Event("init", "", "", "", 0, FALSE, "", <<>>, 0, <<>>)

\* locker._acquire(key, ttl_ms, uuid=uuid) by an idle caller, which keeps the
\* token it gets.
Acquire(c, key, ttl_ms, uuid) ==
    /\ pc[c] = "idle"
    /\ \E fresh \in (IF uuid # <<>> /\ uuid[1] # "" THEN {""} ELSE Uuid4) :
        LET r == _acquire(store, key, ttl_ms, uuid, fresh)
            got == r.ret # <<>>
        IN  /\ store' = r.store
            /\ pc' = IF got THEN [pc EXCEPT ![c] = "holding"] ELSE pc
            /\ handle' = IF got
                         THEN [handle EXCEPT ![c] = [key |-> key, uuid |-> r.ret[1]]]
                         ELSE handle
            /\ trueRel' = IF got THEN [trueRel EXCEPT ![key] = <<>>] ELSE trueRel
            /\ owner' = Owners(r.store, IF got THEN c ELSE "", key)
            /\ ev' = Event("acquire", c, key, IF got THEN r.ret[1] ELSE "", ttl_ms,
                           got, "", r.log, redis_pttl(store, key), uuid)
            /\ UNCHANGED via

\* locker._release(key, uuid) with any arguments; a caller that passes the
\* key and token it holds has released and holds nothing afterwards.
Release(c, key, uuid) ==
    /\ pc[c] \in {"idle", "holding"}
    /\ LET r == _release(store, key, uuid)
           own == pc[c] = "holding" /\ handle[c] = [key |-> key, uuid |-> uuid]
       IN  /\ store' = r.store
           /\ pc' = IF own THEN [pc EXCEPT ![c] = "idle"] ELSE pc
           /\ handle' = IF own THEN [handle EXCEPT ![c] = NoHandle] ELSE handle
           /\ trueRel' = IF r.ret THEN [trueRel EXCEPT ![key] = Append(@, uuid)] ELSE trueRel
           /\ owner' = Owners(r.store, "", key)
           /\ ev' = Event("release", c, key, uuid, 0, r.ret, "", r.log,
                          redis_pttl(store, key), <<>>)
           /\ UNCHANGED via

\* locker._touch(key, uuid, ttl_ms) with any arguments.
Touch(c, key, uuid, ttl_ms) ==
    /\ pc[c] \in {"idle", "holding"}
    /\ LET r == _touch(store, key, uuid, ttl_ms)
       IN  /\ store' = r.store
           /\ owner' = Owners(r.store, "", key)
           /\ ev' = Event("touch", c, key, uuid, ttl_ms, r.ret, "", r.log,
                          redis_pttl(store, key), <<>>)
           /\ UNCHANGED <<pc, handle, via, trueRel>>

\* with locker.lock(key, ttl_ms) as lock: (or one of the other three ways in)
LockEnter(c, v, key, ttl_ms) ==
    /\ pc[c] = "idle"
    /\ v \in ViasOf(c)
    /\ \E fresh \in Uuid4 :
        LET r == Enter(v, store, key, ttl_ms, fresh)
            got == r.lock # <<>>
        IN  /\ store' = r.store
            /\ pc' = IF got THEN [pc EXCEPT ![c] = "section"] ELSE pc
            /\ handle' = IF got THEN [handle EXCEPT ![c] = r.lock[1]] ELSE handle
            /\ via' = IF got THEN [via EXCEPT ![c] = v] ELSE via
            /\ trueRel' = IF got THEN [trueRel EXCEPT ![key] = <<>>] ELSE trueRel
            /\ owner' = Owners(r.store, IF got THEN c ELSE "", key)
            /\ ev' = Event("enter", c, key, IF got THEN r.lock[1].uuid ELSE "", ttl_ms,
                           got, r.exc, r.log, redis_pttl(store, key), <<>>)

\* lock.touch(ttl_ms) inside the protected section.
LockTouch(c, ttl_ms) ==
    /\ pc[c] = "section"
    /\ LET r == RedisLock_touch(store, handle[c], ttl_ms)
       IN  /\ store' = r.store
           /\ owner' = Owners(r.store, "", "")
           /\ ev' = Event("lock.touch", c, handle[c].key, handle[c].uuid, ttl_ms,
                          r.ret, "", r.log, redis_pttl(store, handle[c].key), <<>>)
           /\ UNCHANGED <<pc, handle, via, trueRel>>

\* The protected section ends and the scope is left.
LockExit(c, how) ==
    /\ pc[c] = "section"
    /\ LET r == Leave(via[c], store, handle[c].key, handle[c].uuid, how)
       IN  /\ store' = r.store
           /\ pc' = [pc EXCEPT ![c] = "idle"]
           /\ handle' = [handle EXCEPT ![c] = NoHandle]
           /\ via' = [via EXCEPT ![c] = ""]
           /\ trueRel' = IF r.released
                         THEN [trueRel EXCEPT ![handle[c].key] = Append(@, handle[c].uuid)]
                         ELSE trueRel
           /\ owner' = Owners(r.store, "", "")
           /\ ev' = Event("exit", c, handle[c].key, handle[c].uuid, 0, r.released,
                          r.exc, r.log, redis_pttl(store, handle[c].key), <<how>>)

\* Time passes on the server.
Tick ==
    /\ store' = Expire(store)
    /\ owner' = Owners(Expire(store), "", "")
    /\ ev' = Event("tick", "", "", "", 0, FALSE, "", <<>>, 0, <<>>)
    /\ UNCHANGED <<pc, handle, via, trueRel>>

Next ==
    \/ Tick
    \/ \E c \in Callers, key \in Keys, ttl_ms \in AcquireTtls, uuid \in UuidArgs :
          Acquire(c, key, ttl_ms, uuid)
    \/ \E c \in Callers, key \in Keys : \E uuid \in TokenArgs(c) : Release(c, key, uuid)
    \/ \E c \in Callers, key \in Keys, ttl_ms \in TouchTtls : \E uuid \in TokenArgs(c) :
          Touch(c, key, uuid, ttl_ms)
    \/ \E c \in Callers, v \in Vias, key \in Keys, ttl_ms \in AcquireTtls :
          LockEnter(c, v, key, ttl_ms)
    \/ \E c \in Callers, ttl_ms \in TouchTtls : LockTouch(c, ttl_ms)
    \/ \E c \in Callers, how \in Hows : LockExit(c, how)

Spec == Init /\ [][Next]_vars

\* ------------------------------------------------- the store failing
\* The steps in which the Redis client raises.  The caller gets no result:
\* an _acquire that the server did execute leaves a lease whose token nobody
\* holds.
Raised(e, exc) == [e EXCEPT !.fault = exc]

AcquireRaises(c, key, ttl_ms, uuid, exc, done) ==
    /\ pc[c] = "idle"
    /\ \E fresh \in (IF uuid # <<>> /\ uuid[1] # "" THEN {""} ELSE Uuid4) :
        LET r == _acquire_raising(store, key, ttl_ms, uuid, fresh, exc, done)
        IN  /\ store' = r.store
            /\ trueRel' = IF r.store # store THEN [trueRel EXCEPT ![key] = <<>>] ELSE trueRel
            /\ owner' = Owners(r.store, "", key)
            /\ ev' = Raised(Event("acquire", c, key, "", ttl_ms, FALSE, r.exc, r.log,
                                  redis_pttl(store, key), uuid), exc)
            /\ UNCHANGED <<pc, handle, via>>

ReleaseRaises(c, key, uuid, exc, done) ==
    /\ pc[c] \in {"idle", "holding"}
    /\ LET r == _release_raising(store, key, uuid, exc, done)
       IN  /\ store' = r.store
           /\ trueRel' = IF r.store # store THEN [trueRel EXCEPT ![key] = Append(@, uuid)]
                         ELSE trueRel
           /\ owner' = Owners(r.store, "", key)
           /\ ev' = Raised(Event("release", c, key, uuid, 0, FALSE, r.exc, r.log,
                                 redis_pttl(store, key), <<>>), exc)
           /\ UNCHANGED <<pc, handle, via>>

TouchRaises(c, key, uuid, ttl_ms, exc, done) ==
    /\ pc[c] \in {"idle", "holding"}
    /\ LET r == _touch_raising(store, key, uuid, ttl_ms, exc, done)
       IN  /\ store' = r.store
           /\ owner' = Owners(r.store, "", key)
           /\ ev' = Raised(Event("touch", c, key, uuid, ttl_ms, FALSE, r.exc, r.log,
                                 redis_pttl(store, key), <<>>), exc)
           /\ UNCHANGED <<pc, handle, via, trueRel>>

LockEnterRaises(c, v, key, ttl_ms, exc, done) ==
    /\ pc[c] = "idle"
    /\ v \in ViasOf(c)
    /\ \E fresh \in Uuid4 :
        LET r == RedisLocker_lock_raising(store, key, ttl_ms, fresh, exc, done)
        IN  /\ store' = r.store
            /\ trueRel' = IF r.store # store THEN [trueRel EXCEPT ![key] = <<>>] ELSE trueRel
            /\ owner' = Owners(r.store, "", key)
            /\ ev' = Raised(Event("enter", c, key, "", ttl_ms, FALSE, r.exc, r.log,
                                  redis_pttl(store, key), <<>>), exc)
            /\ UNCHANGED <<pc, handle, via>>

LockTouchRaises(c, ttl_ms, exc, done) ==
    /\ pc[c] = "section"
    /\ LET r == _touch_raising(store, handle[c].key, handle[c].uuid, ttl_ms, exc, done)
       IN  /\ store' = r.store
           /\ owner' = Owners(r.store, "", "")
           /\ ev' = Raised(Event("lock.touch", c, handle[c].key, handle[c].uuid, ttl_ms,
                                 FALSE, r.exc, r.log, redis_pttl(store, handle[c].key),
                                 <<>>), exc)
           /\ UNCHANGED <<pc, handle, via, trueRel>>

LockExitRaises(c, how, exc, done) ==
    /\ pc[c] = "section"
    /\ LET r == RedisLocker_lock_exit_raising(store, handle[c].key, handle[c].uuid, how,
                                              exc, done)
       IN  /\ store' = r.store
           /\ pc' = [pc EXCEPT ![c] = "idle"]
           /\ handle' = [handle EXCEPT ![c] = NoHandle]
           /\ via' = [via EXCEPT ![c] = ""]
           /\ trueRel' = IF r.store # store
                         THEN [trueRel EXCEPT ![handle[c].key] = Append(@, handle[c].uuid)]
                         ELSE trueRel
           /\ owner' = Owners(r.store, "", "")
           /\ ev' = Raised(Event("exit", c, handle[c].key, handle[c].uuid, 0, FALSE,
                                 r.exc, r.log, redis_pttl(store, handle[c].key), <<how>>),
                           exc)

\* The failing steps are explored together with the steps of Next on one key.
RaisingKeys == {"k1"}

NextRaising ==
    \/ Tick
    \/ \E c \in Callers, key \in RaisingKeys, ttl_ms \in AcquireTtls, uuid \in UuidArgs :
          \/ Acquire(c, key, ttl_ms, uuid)
          \/ \E exc \in StoreErrors, done \in BOOLEAN :
                AcquireRaises(c, key, ttl_ms, uuid, exc, done)
    \/ \E c \in Callers, key \in RaisingKeys : \E uuid \in TokenArgs(c) :
          \/ Release(c, key, uuid)
          \/ \E exc \in StoreErrors, done \in BOOLEAN :
                ReleaseRaises(c, key, uuid, exc, done)
    \/ \E c \in Callers, key \in RaisingKeys, ttl_ms \in TouchTtls :
          \E uuid \in TokenArgs(c) :
             \/ Touch(c, key, uuid, ttl_ms)
             \/ \E exc \in StoreErrors, done \in BOOLEAN :
                   TouchRaises(c, key, uuid, ttl_ms, exc, done)
    \/ \E c \in Callers, v \in Vias, key \in RaisingKeys, ttl_ms \in AcquireTtls :
          \/ LockEnter(c, v, key, ttl_ms)
          \/ \E exc \in StoreErrors, done \in BOOLEAN :
                LockEnterRaises(c, v, key, ttl_ms, exc, done)
    \/ \E c \in Callers, ttl_ms \in TouchTtls :
          \/ LockTouch(c, ttl_ms)
          \/ \E exc \in StoreErrors, done \in BOOLEAN :
                LockTouchRaises(c, ttl_ms, exc, done)
    \/ \E c \in Callers, how \in Hows :
          \/ LockExit(c, how)
          \/ \E exc \in StoreErrors, done \in BOOLEAN :
                LockExitRaises(c, how, exc, done)

RaisingSpec == Init /\ [][NextRaising]_vars

\* The server's clock does not stop.  Nothing is asked of the callers: one
\* that takes no more steps has crashed, or is stuck in its protected section.
FairSpec == Spec /\ WF_vars(Tick)

\* ----------------------------------------------------------------- claims
\* Which call the last step was.
IsAcquire(e) == e.op \in {"acquire", "enter"}
IsRelease(e) == e.op \in {"release", "exit"}
IsTouch(e) == e.op \in {"touch", "lock.touch"}
\* The keyspace st holds tok under key.
Holds(st, key, tok) == key \in DOMAIN st /\ st[key].val = tok
\* Caller c has acquired (by _acquire or by entering a scope) and not released.
Holding(c) == pc[c] # "idle"
\* Caller c's lease is in Redis.
Live(c) == Holding(c) /\ Holds(store, handle[c].key, handle[c].uuid)

\* C1: an acquisition (a call of _acquire, or the one made on the way into a
\* lock() scope) by any caller gets a token only when the key was absent at
\* that moment, and gets none when the key was present: between two moments
\* at which the key is absent at most one acquisition succeeds, and a second
\* acquire before expiry returns None.
C1_AcquireSetIfAbsent ==
    [][IsAcquire(ev') =>
          /\ ev'.ok <=> ev'.key \notin DOMAIN store
          /\ ev'.ok => Holds(store', ev'.key, ev'.tok)
          /\ Len(ev'.log) = 1 /\ ev'.log[1].cmd = "set"]_vars

\* C1 witness: b's acquisition has just returned None on the key whose lease
\* a holds.
C1_Witness ==
    /\ ev.op = "acquire" /\ ev.caller = "b" /\ ~ev.ok
    /\ Live("a") /\ handle["a"].key = ev.key /\ owner[ev.key] = "a"

\* C2 as stated: from a's successful acquisition of k until a releases, every
\* acquisition on k by a caller of another RedisLocker returns None.
C2_Original ==
    \A a \in Callers, b \in Callers :
        (/\ LockerOf(a) # LockerOf(b)
         /\ Holding(a)
         /\ IsAcquire(ev) /\ ev.caller = b /\ ev.key = handle[a].key)
        => ~ev.ok

\* C2 amended: while the lease a acquired on k is still in Redis (a has not
\* released it and it has not expired or been removed), every acquisition on
\* k by a caller of another RedisLocker fails and changes nothing; an
\* acquisition made when k is absent, as it is right after a's release,
\* succeeds.
C2_Amended ==
    [][\A a \in Callers, b \in Callers :
          (/\ LockerOf(a) # LockerOf(b)
           /\ IsAcquire(ev') /\ ev'.caller = b)
          => /\ (Live(a) /\ handle[a].key = ev'.key) =>
                    (~ev'.ok /\ store' = store /\ pc'[b] = "idle" /\ Live(a)')
             /\ (IsRelease(ev) /\ ev.caller = a /\ ev.ok /\ ev.key = ev'.key) =>
                    (ev'.ok /\ Live(b)' /\ handle'[b].key = ev'.key)]_vars

\* C2 witness: b's lock() on the key has just failed while a is inside its
\* scope on that key with its lease in Redis.
C2_Witness ==
    /\ ev.op = "enter" /\ ev.caller = "b" /\ ~ev.ok /\ ev.exc = "RuntimeError"
    /\ pc["a"] = "section" /\ handle["a"].key = ev.key /\ Live("a")
    /\ pc["b"] = "idle"

\* C3 as stated: when the lease of a holder has ended and another caller has
\* acquired the key since, the holder's release (its own _release call, or the
\* one made when its scope is left) returns False and leaves the other
\* caller's lease as it is.
C3_Original ==
    [][\A a \in Callers :
          (/\ IsRelease(ev') /\ ev'.caller = a
           /\ Holding(a) /\ handle[a] = [key |-> ev'.key, uuid |-> ev'.tok]
           /\ ev'.key \in DOMAIN store /\ owner[ev'.key] # a)
          => (~ev'.ok /\ store' = store)]_vars

\* C3 amended: the same, when the other caller's token differs from the
\* holder's.
C3_Amended ==
    [][\A a \in Callers :
          (/\ IsRelease(ev') /\ ev'.caller = a
           /\ Holding(a) /\ handle[a] = [key |-> ev'.key, uuid |-> ev'.tok]
           /\ ev'.key \in DOMAIN store /\ owner[ev'.key] # a
           /\ store[ev'.key].val # ev'.tok)
          => (~ev'.ok /\ store' = store /\ owner' = owner)]_vars

\* C3 witness: a's scope has been left after its lease expired and b acquired
\* the key; the release returned False and b's lease is in Redis.
C3_Witness ==
    /\ ev.op = "exit" /\ ev.caller = "a" /\ ~ev.ok
    /\ Live("b") /\ handle["b"].key = ev.key /\ owner[ev.key] = "b"

\* C4 as stated: the first release a caller makes with the key and token of
\* its successful acquisition returns True and removes the key.
C4_Original ==
    [][\A a \in Callers :
          (/\ IsRelease(ev') /\ ev'.caller = a
           /\ Holding(a) /\ handle[a] = [key |-> ev'.key, uuid |-> ev'.tok])
          => (ev'.ok /\ ev'.key \notin DOMAIN store')]_vars

\* C4 amended: a release returns True exactly when it finds its token under
\* the key, and then removes the key and nothing else; so an acquisition is
\* released with True once if its lease is still in Redis at its first
\* release and never otherwise, and a release repeated after a True one
\* returns False.
C4_ReleaseOnce ==
    [][/\ IsRelease(ev') =>
            /\ ev'.ok <=> Holds(store, ev'.key, ev'.tok)
            /\ ev'.ok => store' = Drop(store, ev'.key)
       /\ \A k \in Keys : Len(trueRel'[k]) <= 1]_vars

\* C4 witness: an acquisition was released with True, and a second release
\* with the same key and token has just returned False.
C4_Witness ==
    /\ ev.op = "release" /\ ~ev.ok
    /\ trueRel[ev.key] = <<ev.tok>> /\ ev.key \notin DOMAIN store

\* C5: a release whose token is not the value stored under the key (another
\* value is stored, or the key is absent) returns False and leaves the whole
\* keyspace, values and remaining times to live, as it was.
C5_ReleaseMismatch ==
    [][(IsRelease(ev') /\ ~Holds(store, ev'.key, ev'.tok)) =>
          (~ev'.ok /\ store' = store)]_vars

\* C5 witness: a release with a wrong token has returned False and the lease
\* is still there.
C5_Witness ==
    /\ ev.op = "release" /\ ~ev.ok
    /\ ev.key \in DOMAIN store /\ store[ev.key].val # ev.tok
    /\ ev.was = store[ev.key].pttl

C7_TouchMismatch ==
    [][(IsTouch(ev') /\ ~Holds(store, ev'.key, ev'.tok)) =>
          (~ev'.ok /\ store' = store /\ owner' = owner)]_vars

\* C7 witness: a is inside its scope, its lease has expired and b has acquired
\* the key; a's lock.touch has returned False and b's lease has the time to
\* live it had.
C7_Witness ==
    /\ ev.op = "lock.touch" /\ ev.caller = "a" /\ ~ev.ok
    /\ Live("b") /\ handle["b"].key = ev.key /\ owner[ev.key] = "b"
    /\ store[ev.key].pttl = ev.was /\ ev.ttl # ev.was

\* The release commands among the Redis commands of a call.
Releases(log) == SelectSeq(log, LAMBDA x : x.cmd = "release_script")

\* C8: a scope is left only by the step that ends its protected section, and
\* that step, whether the section completed or raised, issues one release,
\* with the key and token of the scope's own acquisition; no release is
\* issued on the way in, whether the acquisition succeeded or failed, nor by
\* a lock.touch inside the section.
C8_ReleaseOncePerScope ==
    [][\A c \in Callers :
          /\ (pc[c] = "section" /\ pc'[c] # "section") =>
                /\ ev'.op = "exit" /\ ev'.caller = c
                /\ ev'.log = <<Cmd("release_script", handle[c].key, handle[c].uuid, 0)>>
                /\ ev'.exc \in {"", BodyError}
                /\ pc'[c] = "idle"
          /\ (ev'.caller = c /\ ev'.op = "exit") => pc[c] = "section" /\ pc'[c] = "idle"
          /\ (ev'.caller = c /\ ev'.op \in {"enter", "lock.touch"}) =>
                Releases(ev'.log) = <<>>
          /\ (ev'.caller = c /\ ev'.op = "enter") =>
                (pc'[c] = "section" <=> ev'.ok)]_vars

\* C8 witness: b's scope, entered through a RedisLockerKey, has been left by
\* an error and one release was issued.
C8_Witness ==
    /\ ev.op = "exit" /\ ev.caller = "b" /\ ev.exc = BodyError
    /\ Len(Releases(ev.log)) = 1 /\ pc["b"] = "idle"

\* C9 as stated: on the way into a scope the key is set to the handle's
\* token, and right after the scope is left the key is absent.
C9_Original ==
    /\ (ev.op = "enter" /\ ev.ok) => Live(ev.caller) /\ handle[ev.caller].key = ev.key
    /\ (ev.op = "exit") => ev.key \notin DOMAIN store

\* C9 amended: on the way into a scope the key is set to the handle's token
\* with ttl_ms to live, and right after the scope is left the key is absent,
\* unless the scope's lease had gone before the exit (it expired, or was
\* removed) and another caller has acquired the key since: then the release
\* returned False and the key still holds that caller's lease, whose token is
\* not the handle's.
C9_Amended ==
    /\ (ev.op = "enter" /\ ev.ok) =>
          /\ pc[ev.caller] = "section"
          /\ handle[ev.caller] = [key |-> ev.key, uuid |-> ev.tok]
          /\ store[ev.key] = [val |-> ev.tok, pttl |-> ev.ttl]
    /\ (ev.op = "exit") =>
          \/ ev.key \notin DOMAIN store
          \/ ~ev.ok /\ store[ev.key].val # ev.tok /\ owner[ev.key] # ev.caller

\* C9 witness: a scope has been left by an error and the key is absent.
C9_Witness ==
    /\ ev.op = "exit" /\ ev.exc = BodyError /\ ev.ok
    /\ ev.key \notin DOMAIN store /\ ev.was > 0

\* C10: lock() on a key that is present raises the acquisition error after one
\* SET NX, the caller is not inside a protected section afterwards, and the
\* keyspace is as it was.
C10_LockFailsFast ==
    [][(ev'.op = "enter" /\ ev'.key \in DOMAIN store) =>
          /\ ~ev'.ok /\ ev'.exc = "RuntimeError"
          /\ Len(ev'.log) = 1 /\ ev'.log[1].cmd = "set"
          /\ pc'[ev'.caller] = "idle" /\ pc' = pc /\ handle' = handle
          /\ store' = store /\ owner' = owner]_vars

\* C10 witness: a's lock() has just raised on the key b holds.
C10_Witness ==
    /\ ev.op = "enter" /\ ev.caller = "a" /\ ev.exc = "RuntimeError"
    /\ Live("b") /\ handle["b"].key = ev.key /\ pc["a"] = "idle"
    /\ store[ev.key].pttl = ev.was

\* ------------------------------------------------------------------ C12
\* C12: an acquire on an absent key succeeds and returns the token it wrote:
\* the caller-supplied token whenever one is supplied, the empty string too,
\* and a generated one only when none is supplied; the key then holds the
\* returned token and its remaining ttl is ttl_ms.
C12_Original ==
    [][(ev'.op = "acquire" /\ ev'.key \notin DOMAIN store) =>
          /\ ev'.ok
          /\ IF ev'.arg # <<>> THEN ev'.tok = ev'.arg[1] ELSE ev'.tok \in Uuid4
          /\ Holds(store', ev'.key, ev'.tok)
          /\ store'[ev'.key].pttl = ev'.ttl]_vars

\* ------------------------------------------------------------------ C13
\* C13: _acquire on a key that is present in the store returns None and has
\* no effect: the whole keyspace, the stored token and the remaining ttl of
\* the existing lease and every other key, is what it was before the call,
\* and no caller's handle changes.
C13_AcquireFailureFrame ==
    [][(ev'.op = "acquire" /\ ev'.key \in DOMAIN store) =>
          /\ ~ev'.ok /\ ev'.exc = ""
          /\ store' = store
          /\ <<pc, handle, via, owner, trueRel>>' = <<pc, handle, via, owner, trueRel>>]_vars

\* C13 witness: an _acquire has just returned None on a key whose lease has
\* another token and a remaining ttl other than the ttl_ms of the call.
C13_Witness ==
    /\ ev.op = "acquire" /\ ~ev.ok /\ ev.arg = <<"custom">>
    /\ ev.key \in DOMAIN store /\ store[ev.key].val \in UuidPool
    /\ store[ev.key].pttl = ev.was /\ ev.ttl # ev.was

\* ------------------------------------------------------------------ C14
\* C14: distinct keys never interfere.  Every _acquire, _release, _touch and
\* every way into, touch inside and way out of a lock() scope made on a key
\* leaves every other key as it was: present or absent, and with the same
\* token and remaining ttl.  Whether an acquisition succeeds and whether a
\* release deletes depends on the entry of its own key only.
C14_DistinctKeysIndependent ==
    [][(ev'.op # "tick") =>
          /\ \A k \in Keys \ {ev'.key} :
                /\ k \in DOMAIN store' <=> k \in DOMAIN store
                /\ k \in DOMAIN store => store'[k] = store[k]
          /\ IsAcquire(ev') => (ev'.ok <=> ev'.key \notin DOMAIN store)
          /\ IsRelease(ev') => (ev'.ok <=> Holds(store, ev'.key, ev'.tok))]_vars

\* C14 witness: the scopes on k1 and k2 were open together, the one on k2
\* has just been left with a release that deleted its key, and the lease of
\* the one on k1 is still in the store with its ttl running.
C14_Witness ==
    /\ ev.op = "exit" /\ ev.ok /\ ev.caller = "b" /\ ev.key = "k2"
    /\ trueRel["k2"] = <<ev.tok>> /\ "k2" \notin DOMAIN store
    /\ pc["a"] = "section" /\ handle["a"].key = "k1" /\ Live("a")
    /\ store["k1"].pttl < MaxTtl

C20_Original ==
    [][IsTouch(ev') =>
          /\ ev'.ok => Holds(store', ev'.key, ev'.tok)
          /\ \A k \in DOMAIN store :
                k \in DOMAIN store' /\ store'[k].val = store[k].val]_vars

\* ------------------------------------------------------------------ C17
\* The ways the entry of key k changes in a step; a touch is among the ways
\* a key goes away only when touchRemoves says so.
ValueChanges(k, touchRemoves) ==
    /\ (k \notin DOMAIN store /\ k \in DOMAIN store') =>
          IsAcquire(ev') /\ ev'.ok /\ ev'.key = k /\ store'[k].val = ev'.tok
    /\ (k \in DOMAIN store /\ k \notin DOMAIN store') =>
          \/ ev'.op = "tick" /\ store[k].pttl = 1
          \/ IsRelease(ev') /\ ev'.ok /\ ev'.key = k /\ ev'.tok = store[k].val
          \/ touchRemoves /\ IsTouch(ev') /\ ev'.ok /\ ev'.ttl <= 0
                /\ ev'.key = k /\ ev'.tok = store[k].val
    /\ (k \in DOMAIN store /\ k \in DOMAIN store') => store'[k].val = store[k].val
    /\ k \in DOMAIN store' =>
          /\ owner'[k] \in Callers
          /\ handle'[owner'[k]] = [key |-> k, uuid |-> store'[k].val]

\* C17 as stated: in every step the value stored under a key changes only
\* from absent to a token, by a successful acquisition with that token, or
\* from a token to absent, by expiry or by a release carrying that token;
\* never from a token to another token; and a key that is present holds the
\* token of the latest successful acquisition on it.
C17_Original ==
    [][\A k \in Keys : ValueChanges(k, FALSE)]_vars

\* C17 with the one more way a key goes away: a touch carrying the stored
\* token and a ttl_ms that is not positive.
C17_WithTouchRemoval ==
    [][\A k \in Keys : ValueChanges(k, TRUE)]_vars

\* ------------------------------------------------------------------ C18
\* C18: a release at the exit of a lock() scope that returns False (the lease
\* had expired, or had been removed, or the key has been acquired again) is
\* not made an error: after a protected section that ended normally the scope
\* is left with no error, after one that raised the scope is left with
\* exactly that error, and the caller is outside the scope either way.
C18_FalseReleaseNotEscalated ==
    (ev.op = "exit" /\ ~ev.ok) =>
        /\ ev.exc = (IF ev.arg = <<"raise">> THEN BodyError ELSE "")
        /\ pc[ev.caller] = "idle" /\ handle[ev.caller] = NoHandle

\* C18 witness: a scope whose protected section ended normally has been left
\* with no error although its release returned False, the key having been
\* acquired by the other caller after the scope's lease expired.
C18_Witness ==
    /\ ev.op = "exit" /\ ~ev.ok /\ ev.arg = <<"return">> /\ ev.exc = ""
    /\ ev.key \in DOMAIN store /\ store[ev.key].val # ev.tok
    /\ owner[ev.key] \in Callers \ {ev.caller}

\* ------------------------------------------------------------------ C19
\* C19: mutual exclusion of the protected sections as long as nobody
\* overstays its lease.  A caller gets into a lock() scope on a key while
\* another caller is inside a scope on the same key only if that caller's
\* lease was gone from the store before (it overstayed its ttl, or the ttl of
\* its last successful touch); and of the callers inside a scope on one key
\* at most one has its lease in the store.
C19_MutualExclusion ==
    [][/\ (ev'.op = "enter" /\ ev'.ok) =>
              \A d \in Callers \ {ev'.caller} :
                  (pc[d] = "section" /\ handle[d].key = ev'.key) => ~Live(d)
       /\ \A c \in Callers, d \in Callers :
              (c # d /\ pc'[c] = "section" /\ pc'[d] = "section"
                     /\ handle'[c].key = handle'[d].key) =>
                  ~(Holds(store', handle'[c].key, handle'[c].uuid)
                      /\ Holds(store', handle'[d].key, handle'[d].uuid))]_vars

\* C19 witness: a's attempt to get into a scope on the key of b's open scope
\* has failed, b's lease being in the store with more time to live than a
\* asked for.
C19_Witness ==
    /\ ev.op = "enter" /\ ev.caller = "a" /\ ~ev.ok
    /\ pc["b"] = "section" /\ handle["b"].key = ev.key /\ Live("b")
    /\ store[ev.key].pttl = MaxTtl /\ ev.ttl < MaxTtl
    /\ ev.was = MaxTtl

\* ------------------------------------------------------------------ C11
\* C11: expiry is the backstop for leaked locks.  An acquisition with ttl_ms
\* leaves the key with ttl_ms to live; as time passes a key with more than
\* one tick to live stays, with one tick less, and a key with one tick to
\* live goes; an acquisition on a key that is absent succeeds, whoever makes
\* it; and no key stays in the store forever unless it is successfully
\* touched again and again.
C11_ExpiryBackstop ==
    /\ [][/\ (IsAcquire(ev') /\ ev'.ok) => store'[ev'.key].pttl = ev'.ttl
          /\ (IsAcquire(ev') /\ ev'.key \notin DOMAIN store) => ev'.ok
          /\ (ev'.op = "tick") =>
                \A k \in DOMAIN store :
                    IF store[k].pttl > 1
                    THEN k \in DOMAIN store' /\ store'[k].pttl = store[k].pttl - 1
                    ELSE k \notin DOMAIN store']_vars
    /\ \A k \in Keys :
          []<>(k \notin DOMAIN store \/ (IsTouch(ev) /\ ev.ok /\ ev.key = k))

\* C11 witness: a got into a scope on a key and is still inside, has not
\* released, its lease is gone, and b's acquisition on the key has just
\* succeeded.
C11_Witness ==
    /\ IsAcquire(ev) /\ ev.ok /\ ev.caller = "b" /\ ev.was = 0
    /\ pc["a"] = "section" /\ handle["a"].key = ev.key /\ ~Live("a")
    /\ owner[ev.key] = "b"

\* ------------------------------------------------------------------ C15
\* C15: an error the Redis client raises during _acquire, _release or _touch
\* reaches the caller as it is, in place of a result, and nothing is tried
\* again: every call sends one command.  When it is raised on the way into a
\* lock() scope the protected section does not run and no release is sent;
\* when it is raised by the release on the way out, it is the error with
\* which the scope is left.
C15_StoreFailurePropagates ==
    [][/\ (IsAcquire(ev') \/ IsRelease(ev') \/ IsTouch(ev')) => Len(ev'.log) = 1
       /\ (ev'.fault # "") =>
             /\ ev'.exc = ev'.fault /\ ~ev'.ok
             /\ (ev'.op # "exit") => (pc' = pc /\ handle' = handle)
             /\ (ev'.op = "enter") =>
                   /\ pc'[ev'.caller] = "idle"
                   /\ ev'.log[1].cmd = "set" /\ Releases(ev'.log) = <<>>
             /\ (ev'.op = "exit") =>
                   /\ pc[ev'.caller] = "section" /\ pc'[ev'.caller] = "idle"
                   /\ Len(Releases(ev'.log)) = 1]_vars

\* C15 witness: the release on the way out of a scope, after an error of the
\* protected section, could not reach the server: the scope has been left
\* with the client's error and the lease is still in the store.
C15_Witness ==
    /\ ev.op = "exit" /\ ev.fault = "ConnectionError" /\ ev.exc = "ConnectionError"
    /\ ev.arg = <<"raise">> /\ pc[ev.caller] = "idle"
    /\ Holds(store, ev.key, ev.tok)

====
